---- MODULE Spec2Model ----
(***************************************************************************)
(* Resilience and payment-integrity core of the subscription bot:          *)
(*   - PaymentProcessor (src/payment_processor.py): ephemeral wallets, the *)
(*     manual verify_payment path, the background poll loop and the        *)
(*     DOUBLE_SPEND_DB index kept in SecureConfig (src/config.py);         *)
(*   - the database layer (src/database.py): the psycopg2 connection pool, *)
(*     transaction_context, recover_db_connection, execute_with_rollback.  *)
(*   - CircuitBreaker and SystemHealth (src/system_health.py) and the two   *)
(*     webhook endpoints that consult the breaker (src/main.py).           *)
(*                                                                         *)
(* Threads interleave at statement granularity: the code takes no lock in  *)
(* PaymentProcessor and none around the pool recovery.                     *)
(***************************************************************************)
EXTENDS Integers, Sequences, FiniteSets, TLC

(***************************************************************************)
(* Bounds of the model                                                     *)
(***************************************************************************)
MaxWallets == 2      \* generate_payment_address calls in one run
MaxTicks == 3        \* clock steps in one run
MaxCredits == 2      \* confirmations the poll loop may repeat per transaction
MaxCalls == 2        \* database operations one thread starts in one run
MaxStmts == 2        \* statements of one unit of work
MaxBreakerTicks == 4 \* clock steps in a run of the circuit breaker
MaxFailures == 6     \* record_failure calls in one run
MaxHealthTicks == 3  \* clock steps in a run of the supervisor
MaxRounds == 3       \* depth the recover_system recursion is followed to
MaxErrors == 22           \* report_error calls in one run
MaxFailedCycles == 4      \* poll cycles that fail in a row

(***************************************************************************)
(* Program constants                                                       *)
(***************************************************************************)
WalletLifetime == 1800   \* security_utils.py:98  expires = now + 1800
TickSeconds == 900       \* granularity of the modelled clock

Users == {"u1", "u2"}
Txs == {"tx1"}
\* the identifiers the ledger and the poll loop know of
PollTxs == {"tx1", "tx2"}
Amounts == {105, 165}            \* config.py PLANS prices
VerifyThreads == {"v1", "v2"}    \* threads calling verify_payment

DbThreads == {"d1", "d2"}        \* threads running database operations
maxconn == 5                     \* database.py:23
minconn == 1                     \* database.py:22

NoAddr == 0                      \* no address: None
AbsentAddr == 0 - 1              \* tx_info carries no 'address' key
NoWallet == [address |-> NoAddr, amount |-> 0, expires |-> 0]
NoTx == [amount |-> 0, address |-> NoAddr, confirmations |-> 0, seen |-> FALSE]
NoArgs == [user_id |-> "none", tx_id |-> "none", amount |-> 0]

threshold == 5                   \* system_health.py:14  CircuitBreaker(threshold=5)
timeout == 60                    \* system_health.py:14  CircuitBreaker(timeout=60)
StartTime == 1000                \* time.time() when the process starts
BreakerStep == timeout \div 2    \* granularity of the clock the breaker sees
max_errors == 20                 \* system_health.py:38
reset_interval == 3600           \* system_health.py:39
HealthStep == reset_interval \div 2   \* granularity of the supervisor's clock
\* the probes of run_checks besides 'db' (system_health.py:56-61)
OtherChecks == {"internet", "disk", "service"}

\* config.py:6-10
encrypted_fields ==
    <<"TELEGRAM_TOKEN", "BINANCE_API_KEY", "BINANCE_API_SECRET",
      "BINANCE_USDT_ADDRESS", "KOFI_WEBHOOK_TOKEN", "ADMIN_ID",
      "DATABASE_URL", "SENTRY_DSN">>

\* names under which secrets are stored; main.py:62 uses MASTER_ENCRYPTION
KeyNames == {"MASTER_ENCRYPTION", "API"}
NoKey == "none"                  \* _keys.get(name) is None
\* secret values: two well-formed Fernet keys and a string that is not one
KeyValues == {"k1", "k2", "bad"}
Plains == {"", "p1", "p2"}       \* plaintexts; "" is the empty string
\* the empty string as a ciphertext argument or result
EmptyCt == [kind |-> "empty", key |-> NoKey, plain |-> ""]
\* hexlify(Fernet(k).encrypt(p))
FernetToken(k, p) == [kind |-> "token", key |-> k, plain |-> p]
\* ciphertext arguments: "", a string that is not hex, hex that is not a
\* Fernet token, and tokens made under either key
Ciphertexts ==
    {EmptyCt,
     [kind |-> "nothex", key |-> NoKey, plain |-> ""],
     [kind |-> "garbage", key |-> NoKey, plain |-> ""]}
    \cup {FernetToken(k, p) : k \in {"k1", "k2"}, p \in {"p1", "p2"}}
NoEnc == [called |-> FALSE, data |-> "", key |-> NoKey, exc |-> "none",
          ct |-> EmptyCt]
NoDec == [called |-> FALSE, data |-> EmptyCt, key |-> NoKey, exc |-> "none",
          val |-> ""]

\* X-Kofi-Signature: the HMAC of the body, another value, or no header
Signatures == {"valid", "invalid", "absent"}
RequiredFields == {"amount", "currency", "user_id"}   \* security_utils.py:115
\* request bodies: every required field, or one of them missing
Payloads == {RequiredFields} \cup {RequiredFields \ {f} : f \in RequiredFields}
NoReq == [endpoint |-> "none", signature |-> "absent", fields |-> {}]

VARIABLES
    now,          \* time.time()
    wallets,      \* PaymentProcessor.wallets : user_id -> wallet (NoWallet = key absent)
    nextAddr,     \* next fresh address secrets.token_urlsafe will produce
    ledger,       \* what client.get_deposit_history(txid) currently reports
    ledgerUp,     \* FALSE: get_deposit_history raises (network, API error)
    doubleSpend,  \* keys of SecureConfig._config['DOUBLE_SPEND_DB']
    pending,      \* rows get_pending_payments() returns: [tx_id, user_id]
    vpc,          \* position of each verify_payment caller
    vargs,        \* arguments of the thread's current or last call
    vret,         \* "none", "running", or what the last call returned
    verifyCredits,\* number of times verify_payment returned True, per tx
    pollCredits,  \* number of times _confirm_payment ran, per tx
    ppc,          \* position of the poll loop
    pollQueue,    \* payments of the current cycle still to be checked
    rejected,     \* history: identifiers verify_payment has rejected for an
                  \* amount or address mismatch
    cycleLog,     \* history: what the current poll cycle did, in order
    failedCycles  \* history: poll cycles that failed as a whole, in a row

payVars == <<now, wallets, nextAddr, ledger, ledgerUp, doubleSpend, pending, vpc, vargs,
             vret, verifyCredits, pollCredits, ppc, pollQueue, rejected, cycleLog, failedCycles>>

VARIABLES
    dbUp,         \* the PostgreSQL server accepts connections
    poolClosed,   \* connection_pool.closed
    idleConn,     \* the connection kept in connection_pool._pool ("none" if empty)
    leaked,       \* entries of connection_pool._used whose holder is gone
    dpc,          \* position of each thread running a database operation
    conn0,        \* the wrapper's connection (execute_with_rollback, line 80)
    conn,         \* transaction_context's connection (line 59)
    exc,          \* the exception propagating in the thread ("none" if none)
    stmts,        \* statements the unit of work has executed in this run
    pend,         \* uncommitted writes of the thread's open transaction
    persisted,    \* committed writes, tagged <<thread, call>>
    calls,        \* number of operations the thread has started
    runs,         \* times the unit of work was started in the current call
    rebuilt,      \* the current call ran recover_db_connection
    uowErr,       \* first exception the unit of work raised in the current call
    wrote,        \* statements the current call executed successfully
    tcOutcome,    \* what transaction_context raised to the with statement
    outcome       \* what the finished operation raises to its caller

dbVars == <<dbUp, poolClosed, idleConn, leaked, dpc, conn0, conn, exc, stmts,
            pend, persisted, calls, runs, rebuilt, uowErr, wrote, tcOutcome,
            outcome>>

VARIABLES
    clock,        \* time.time() as CircuitBreaker and SystemHealth read it
    failures,     \* webhook_breaker.failures
    last_failure, \* webhook_breaker.last_failure
    allowRet,     \* what the allow_request() call made at this instant returned
    req,          \* the webhook request handled at this instant (NoReq if none)
    resp,         \* the HTTP status it was answered with (0 if none)
    audited       \* secure_audit_log entries written while handling it

brVars == <<clock, failures, last_failure, allowRet, req, resp, audited>>

VARIABLES
    adminSet,     \* SecureConfig.get('ADMIN_ID', decrypt=True) is truthy
    error_count,  \* SystemHealth.error_count
    last_check,   \* SystemHealth.last_check
    firstErrAt,   \* when the oldest error still counted was reported
    repRet,       \* how the last report_error call ended ("none" if none yet)
    restarted,    \* the last report_error call ran restart_service
    hpc,          \* position of the run_checks call in progress
    status,       \* checks that failed in the latest probe cycle
    probes,       \* probe cycles the current run_checks call has run
    rounds,       \* recover_system frames the current call has entered
    reported,     \* "Recovery Results" alerts the current call has sent
    hret          \* how the current run_checks call ended ("none" if running)

shVars == <<adminSet, error_count, last_check, firstErrAt, repRet, restarted,
            hpc, status, probes, rounds, reported, hret>>

VARIABLES
    keys,         \* SecureKeyStorage._keys: name -> value (NoKey if absent)
    zeroed,       \* the buffers whose bytes have been overwritten with zeros
    lastEnc,      \* the last encrypt_data call: input, key read, outcome
    lastDec       \* the last decrypt_data call: input, key read, outcome

vaVars == <<keys, zeroed, lastEnc, lastDec>>

VARIABLES
    gpc,          \* where main / graceful_shutdown stands
    cause,        \* what started the shutdown
    again,        \* the SystemExit of sys.exit(0) will pass main's finally
    ppRunning,    \* PaymentProcessor.running
    ppJoined,     \* the payment monitor thread has been joined
    acRunning,    \* AutoCommenter.running
    acJoined,     \* the auto-commenter threads have been joined
    eraseCalls,   \* executions of SecureKeyStorage.erase_all
    exitHow,      \* how the process ended
    bpc,          \* where the start-up of main.py stands
    loadPos       \* SecureConfig.load: index of the field it handles next

sdVars == <<gpc, cause, again, ppRunning, ppJoined, acRunning, acJoined,
            eraseCalls, exitHow, bpc, loadPos>>

sysVars == <<brVars, shVars, vaVars, sdVars>>

vars == <<payVars, dbVars, sysVars>>

(***************************************************************************)
(* Pure helpers                                                            *)
(***************************************************************************)
\* security_utils.generate_ephemeral_wallet: fresh address, expiry now+1800
generate_ephemeral_wallet(addr, t) ==
    [address |-> addr, expires |-> t + WalletLifetime]

\* self.wallets.get(user_id, {}).get('address')
wallet_address(u) == wallets[u].address

\* truthiness of tx_info
tx_info_truthy(info) == info.seen

\* line 83: tx_id in SecureConfig.get('DOUBLE_SPEND_DB')
double_spend_contains_user(u, t) == u \in doubleSpend

double_spend_contains(u, t) == t \in doubleSpend

\* line 91: SecureConfig.get('DOUBLE_SPEND_DB')[tx_id] = True
double_spend_insert(t) == doubleSpend \cup {t}

\* tx_info['address'] raises KeyError when the entry carries no address;
\* verify_payment catches it (line 93) and returns False
has_address(info) == info.address # AbsentAddr

\* the condition of verify_payment, lines 88-90
verify_condition(info, u, a) ==
    /\ tx_info_truthy(info)
    /\ info.amount = a
    /\ has_address(info)
    /\ info.address = wallet_address(u)

\* lines 88-90 evaluate to False for a transaction the ledger knows: the
\* amount or the destination differs
mismatch(info, u, a) ==
    /\ tx_info_truthy(info)
    /\ has_address(info)
    /\ ~verify_condition(info, u, a)

\* the condition of _check_payment_confirmation, line 63
poll_condition(info) ==
    /\ tx_info_truthy(info)
    /\ info.confirmations >= 1

(***************************************************************************)
(* Initial state: PaymentProcessor._init_processor, SecureConfig.load      *)
(***************************************************************************)
PayInit ==
    /\ now = 0
    /\ wallets = [u \in Users |-> NoWallet]
    /\ nextAddr = 1
    /\ ledger = [t \in PollTxs |-> NoTx]
    /\ ledgerUp = TRUE
    /\ doubleSpend = {}
    /\ pending = {}
    /\ vpc = [th \in VerifyThreads |-> "idle"]
    /\ vargs = [th \in VerifyThreads |-> NoArgs]
    /\ vret = [th \in VerifyThreads |-> "none"]
    /\ verifyCredits = [t \in PollTxs |-> 0]
    /\ pollCredits = [t \in PollTxs |-> 0]
    /\ ppc = "sleep"
    /\ pollQueue = {}
    /\ rejected = {}
    /\ cycleLog = <<>>
    /\ failedCycles = 0

\* database.py:21-25: the pool opens minconn connections at import
DbInit ==
    /\ dbUp = TRUE
    /\ poolClosed = FALSE
    /\ idleConn = "ok"
    /\ leaked = 0
    /\ dpc = [th \in DbThreads |-> "idle"]
    /\ conn0 = [th \in DbThreads |-> "none"]
    /\ conn = [th \in DbThreads |-> "none"]
    /\ exc = [th \in DbThreads |-> "none"]
    /\ stmts = [th \in DbThreads |-> 0]
    /\ pend = [th \in DbThreads |-> {}]
    /\ persisted = {}
    /\ calls = [th \in DbThreads |-> 0]
    /\ runs = [th \in DbThreads |-> 0]
    /\ rebuilt = [th \in DbThreads |-> FALSE]
    /\ uowErr = [th \in DbThreads |-> "none"]
    /\ wrote = [th \in DbThreads |-> 0]
    /\ tcOutcome = [th \in DbThreads |-> "none"]
    /\ outcome = [th \in DbThreads |-> "none"]

\* system_health.py:14-18, 30: webhook_breaker = CircuitBreaker()
BreakerInit ==
    /\ clock = StartTime
    /\ failures = 0
    /\ last_failure = 0
    /\ allowRet = "none"
    /\ req = NoReq
    /\ resp = 0
    /\ audited = 0

\* system_health.py:34-39 SystemHealth.__init__
HealthInit ==
    /\ error_count = 0
    /\ last_check = StartTime
    /\ firstErrAt = 0
    /\ repRet = "none"
    /\ restarted = FALSE
    /\ hpc = "idle"
    /\ status = {}
    /\ probes = 0
    /\ rounds = 0
    /\ reported = 0
    /\ hret = "none"

\* main.py:62: the master key is stored when the module is loaded
VaultInit ==
    /\ keys = [n \in KeyNames |->
                 IF n = "MASTER_ENCRYPTION" THEN "k1" ELSE NoKey]
    /\ zeroed = {}
    /\ lastEnc = NoEnc
    /\ lastDec = NoDec

\* main.py:534-600 has run: the payment monitor (payment_processor.py:29-33)
\* and the auto-commenter (admin_panel.py:204-205, 299-300) are running
ShutdownInit ==
    /\ gpc = "main"
    /\ cause = "none"
    /\ again = FALSE
    /\ ppRunning = TRUE
    /\ ppJoined = FALSE
    /\ acRunning = TRUE
    /\ acJoined = FALSE
    /\ eraseCalls = 0
    /\ exitHow = "none"

\* the start-up of main.py is over
StartedInit ==
    /\ bpc = "up"
    /\ loadPos = Len(encrypted_fields) + 1

\* main.py:1-33: the modules before config are imported (database.py has
\* opened its pool), nothing is stored in SecureKeyStorage, no loop runs
BootInit ==
    /\ PayInit /\ DbInit /\ BreakerInit /\ HealthInit /\ adminSet = TRUE
    /\ keys = [n \in KeyNames |-> NoKey]
    /\ zeroed = {}
    /\ lastEnc = NoEnc
    /\ lastDec = NoDec
    /\ gpc = "main"
    /\ cause = "none"
    /\ again = FALSE
    /\ ppRunning = FALSE
    /\ ppJoined = FALSE
    /\ acRunning = FALSE
    /\ acJoined = FALSE
    /\ eraseCalls = 0
    /\ exitHow = "none"
    /\ bpc = "config_load"
    /\ loadPos = 1

\* ADMIN_ID is configured: main.py:68 converts it with int() at start-up
Init ==
    /\ PayInit /\ DbInit /\ BreakerInit /\ HealthInit /\ adminSet = TRUE
    /\ VaultInit
    /\ ShutdownInit
    /\ StartedInit

\* SystemHealth taken on its own, with or without an ADMIN_ID
HealthAnyInit ==
    /\ PayInit /\ DbInit /\ BreakerInit /\ HealthInit /\ adminSet \in BOOLEAN
    /\ VaultInit
    /\ ShutdownInit
    /\ StartedInit

(***************************************************************************)
(* Environment: the clock and the external ledger                          *)
(***************************************************************************)
Tick ==
    /\ now < MaxTicks * TickSeconds
    /\ now' = now + TickSeconds
    /\ UNCHANGED <<wallets, nextAddr, ledger, ledgerUp, doubleSpend, pending, vpc, vargs,
                   vret, verifyCredits, pollCredits, ppc, pollQueue,
                   rejected, cycleLog, failedCycles, dbVars, sysVars>>

\* a deposit appears on the ledger; its amount and destination never change
LedgerReport(t, a, addr) ==
    /\ ~ledger[t].seen
    /\ ledger' = [ledger EXCEPT ![t] =
                    [amount |-> a, address |-> addr, confirmations |-> 0,
                     seen |-> TRUE]]
    /\ UNCHANGED <<ledgerUp, now, wallets, nextAddr, doubleSpend, pending, vpc, vargs,
                   vret, verifyCredits, pollCredits, ppc, pollQueue,
                   rejected, cycleLog, failedCycles, dbVars, sysVars>>

LedgerConfirm(t) ==
    /\ ledger[t].seen
    /\ ledger[t].confirmations = 0
    /\ ledger' = [ledger EXCEPT ![t].confirmations = 1]
    /\ UNCHANGED <<ledgerUp, now, wallets, nextAddr, doubleSpend, pending, vpc, vargs,
                   vret, verifyCredits, pollCredits, ppc, pollQueue,
                   rejected, cycleLog, failedCycles, dbVars, sysVars>>

\* the ledger API becomes unreachable, or reachable again
LedgerToggle ==
    /\ ledgerUp' = ~ledgerUp
    /\ UNCHANGED <<now, wallets, nextAddr, ledger, doubleSpend, pending, vpc,
                   vargs, vret, verifyCredits, pollCredits, ppc, pollQueue,
                   rejected, cycleLog, failedCycles, dbVars, sysVars>>

(***************************************************************************)
(* PaymentProcessor.generate_payment_address                               *)
(***************************************************************************)
generate_payment_address(u, a) ==
    /\ nextAddr <= MaxWallets
    /\ LET wallet == generate_ephemeral_wallet(nextAddr, now)
       IN wallets' = [wallets EXCEPT ![u] =
                        [address |-> wallet.address, amount |-> a,
                         expires |-> wallet.expires]]
    /\ nextAddr' = nextAddr + 1
    /\ UNCHANGED <<now, ledger, ledgerUp, doubleSpend, pending, vpc, vargs, vret,
                   verifyCredits, pollCredits, ppc, pollQueue,
                   rejected, cycleLog, failedCycles, dbVars, sysVars>>

(***************************************************************************)
(* PaymentProcessor.verify_payment, one caller thread th                   *)
(***************************************************************************)
\* line 83: the membership test on DOUBLE_SPEND_DB
verify_payment_gate(th, u, t, a) ==
    /\ vpc[th] = "idle"
    /\ vargs' = [vargs EXCEPT ![th] = [user_id |-> u, tx_id |-> t, amount |-> a]]
    /\ IF double_spend_contains(u, t)
         THEN /\ vret' = [vret EXCEPT ![th] = "False"]
              /\ UNCHANGED vpc
         ELSE /\ vpc' = [vpc EXCEPT ![th] = "checked"]
              /\ vret' = [vret EXCEPT ![th] = "running"]
    /\ UNCHANGED <<now, wallets, nextAddr, ledger, ledgerUp, doubleSpend, pending,
                   verifyCredits, pollCredits, ppc, pollQueue,
                   rejected, cycleLog, failedCycles, dbVars, sysVars>>

\* lines 86-96: the ledger query, the comparison and the insert
verify_payment_return(th) ==
    /\ vpc[th] = "checked"
    /\ LET u == vargs[th].user_id
           t == vargs[th].tx_id
           a == vargs[th].amount
           tx_info == ledger[t]
       IN IF ledgerUp /\ verify_condition(tx_info, u, a)
            THEN /\ doubleSpend' = double_spend_insert(t)
                 /\ vret' = [vret EXCEPT ![th] = "True"]
                 /\ verifyCredits' = [verifyCredits EXCEPT ![t] = @ + 1]
            ELSE /\ vret' = [vret EXCEPT ![th] = "False"]
                 /\ UNCHANGED <<doubleSpend, verifyCredits>>
    /\ vpc' = [vpc EXCEPT ![th] = "idle"]
    /\ UNCHANGED <<now, wallets, nextAddr, ledger, ledgerUp, pending, vargs,
                   pollCredits, ppc, pollQueue, cycleLog, failedCycles,
                   dbVars, sysVars>>

verify_payment_confirm(th) ==
    /\ verify_payment_return(th)
    /\ UNCHANGED rejected

\* the same step with its rejections written to the history
verify_payment_confirm_observed(th) ==
    /\ verify_payment_return(th)
    /\ LET info == ledger[vargs[th].tx_id]
       IN rejected' =
            IF ledgerUp /\ mismatch(info, vargs[th].user_id, vargs[th].amount)
              THEN rejected \cup {vargs[th].tx_id}
              ELSE rejected

(***************************************************************************)
(* The background poll loop: PaymentProcessor._monitor_payments            *)
(***************************************************************************)
\* database.record_payment: a pending PaymentRecord is stored
record_payment(u, t) ==
    /\ [tx_id |-> t, user_id |-> u] \notin pending
    /\ \A p \in pending : p.tx_id # t
    /\ pending' = pending \cup {[tx_id |-> t, user_id |-> u]}
    /\ UNCHANGED <<now, wallets, nextAddr, ledger, ledgerUp, doubleSpend, vpc, vargs,
                   vret, verifyCredits, pollCredits, ppc, pollQueue,
                   rejected, cycleLog, failedCycles, dbVars, sysVars>>

\* database.get_pending_payments
get_pending_payments == pending

\* get_pending_payments() raises when the database is unreachable
get_pending_payments_raises == ~dbUp

\* line 51: a cycle starts with the pending rows
monitor_payments_cycle ==
    /\ ppc = "sleep"
    /\ ~get_pending_payments_raises
    /\ pollQueue' = get_pending_payments
    /\ ppc' = "cycle"
    /\ UNCHANGED <<now, wallets, nextAddr, ledger, ledgerUp, doubleSpend, pending, vpc,
                   vargs, vret, verifyCredits, pollCredits,
                   rejected, dbVars, sysVars>>

monitor_payments_begin ==
    /\ monitor_payments_cycle
    /\ UNCHANGED <<cycleLog, failedCycles>>

\* the same step with the histories of the cycle started afresh
monitor_payments_begin_observed ==
    /\ monitor_payments_cycle
    /\ cycleLog' = <<>>
    /\ failedCycles' = 0

\* payment_processor.py:44-47: @retry(stop=stop_after_attempt(3), ...)
stop_after_attempt == 3

\* lines 50-51, 55-57: get_pending_payments() raises; the except clause logs,
\* sleeps 300 s and the while loop starts the next cycle. Nothing reaches
\* the retry decorator and nothing calls SystemHealth.report_error
monitor_payments_fail ==
    /\ ppc = "sleep"
    /\ get_pending_payments_raises
    /\ failedCycles < MaxFailedCycles
    /\ failedCycles' = failedCycles + 1
    /\ cycleLog' = <<>>
    /\ UNCHANGED <<now, wallets, nextAddr, ledger, ledgerUp, doubleSpend, pending, vpc,
                   vargs, vret, verifyCredits, pollCredits, ppc, pollQueue,
                   rejected, dbVars, sysVars>>

\* _confirm_payment: the audit entry PAYMENT_CONFIRMED and the activation
confirm_payment(u, t) ==
    pollCredits' = [pollCredits EXCEPT ![t] = @ + 1]

\* lines 65-66: the except clause of _check_payment_confirmation logs and
\* returns, so the for loop of line 52 goes on with the records in rest
check_except_leaves_loop(rest) == {}

check_except(rest) == rest

\* what one check does: the ledger query raised, the payment was confirmed,
\* or neither
check_result(info) ==
    IF ~ledgerUp THEN "error"
    ELSE IF poll_condition(info) THEN "confirmed"
    ELSE "unconfirmed"

\* lines 59-66, for one payment of the cycle
check_payment_confirmation_step(payment) ==
    /\ ppc = "cycle"
    /\ payment \in pollQueue
    /\ pollQueue' = IF ledgerUp
                       THEN pollQueue \ {payment}
                       ELSE check_except(pollQueue \ {payment})
    /\ LET tx_id == payment.tx_id
           tx_info == ledger[tx_id]
       IN IF ledgerUp /\ poll_condition(tx_info)
            THEN /\ pollCredits[tx_id] < MaxCredits
                 /\ confirm_payment(payment.user_id, tx_id)
            ELSE UNCHANGED pollCredits
    /\ UNCHANGED <<now, wallets, nextAddr, ledger, ledgerUp, doubleSpend, pending, vpc,
                   vargs, vret, verifyCredits, ppc,
                   rejected, failedCycles, dbVars, sysVars>>

check_payment_confirmation(payment) ==
    /\ check_payment_confirmation_step(payment)
    /\ UNCHANGED cycleLog

\* the same step with its result written to the history of the cycle
check_payment_confirmation_observed(payment) ==
    /\ check_payment_confirmation_step(payment)
    /\ cycleLog' = Append(cycleLog,
                          [tx_id |-> payment.tx_id,
                           result |-> check_result(ledger[payment.tx_id])])

\* line 54: the cycle is over, time.sleep(60)
monitor_payments_sleep ==
    /\ ppc = "cycle"
    /\ pollQueue = {}
    /\ ppc' = "sleep"
    /\ UNCHANGED <<now, wallets, nextAddr, ledger, ledgerUp, doubleSpend, pending, vpc,
                   vargs, vret, verifyCredits, pollCredits, pollQueue,
                   rejected, cycleLog, failedCycles, dbVars, sysVars>>

(***************************************************************************)
(* The psycopg2 pool behind get_db_connection / put_db_connection          *)
(* A connection is "ok", "broken" (the server side is gone, the client has *)
(* not noticed yet) or "closed" (closed on the client side).               *)
(***************************************************************************)
Held(c) == {th \in DbThreads : c[th] # "none"}

\* len(connection_pool._used)
UsedCount == Cardinality(Held(conn0)) + Cardinality(Held(conn)) + leaked

\* connection_pool.getconn(): a connection state, or the exception raised
getconn_on(closed, idle, used) ==
    IF closed THEN "PoolError"
    ELSE IF idle # "none" THEN idle
    ELSE IF used = maxconn THEN "PoolError"
    ELSE IF dbUp THEN "ok"
    ELSE "OperationalError"

get_db_connection == getconn_on(poolClosed, idleConn, UsedCount)

IsConn(r) == r \in {"ok", "broken", "closed"}

\* _pool after a getconn that popped the idle connection
idle_after_getconn ==
    IF ~poolClosed /\ idleConn # "none" THEN "none" ELSE idleConn

\* connection_pool.putconn(c) raises PoolError on a closed pool
putconn_raises == poolClosed

\* _pool after putconn(c): kept while fewer than minconn are idle, else closed
idle_after_putconn(c) ==
    IF ~poolClosed /\ idleConn = "none" /\ c \in {"ok", "broken"}
      THEN c ELSE idleConn

\* what cursor.execute / commit / rollback raise on a connection in state c
conn_error(c) ==
    IF c = "broken" THEN "OperationalError"
    ELSE IF c = "closed" THEN "InterfaceError"
    ELSE "none"

\* the connection after an operation on it: a lost connection is closed
conn_after(c) == IF c = "ok" THEN "ok" ELSE "closed"

\* connection_pool.closeall(): every pooled and leased connection is closed
closed_all(c) == [th \in DbThreads |-> IF c[th] = "none" THEN "none" ELSE "closed"]

\* database.py:64: except (psycopg2.OperationalError, psycopg2.InterfaceError)
is_connection_error_any(e) == e # "none"

is_connection_error(e) == e \in {"OperationalError", "InterfaceError"}

\* database.py:50-55 recover_db_connection: closeall() leaves the pool closed,
\* so the getconn that follows raises PoolError; tenacity retries only
\* OperationalError / InterfaceError and re-raises anything else at once
recover_db_connection ==
    getconn_on(TRUE, IF idleConn = "none" THEN "none" ELSE "closed", UsedCount)

\* database.py:72 conn.rollback(): the persisted state after the rollback of
\* a transaction with uncommitted writes w
except_rollback_commits(p, w) == p \cup w

except_rollback(p, w) == p

\* database.py:63 conn.commit()
commit(p, w) == p \cup w

\* where control goes when the except branch of lines 64-70 is left
except_conn_next_retry == "tc_get"

except_conn_next == "tc_finally"

\* the writes of thread th's current call
Token(th) == <<th, calls[th]>>

(***************************************************************************)
(* Environment of the database                                             *)
(***************************************************************************)
Break(c) == [th \in DbThreads |-> IF c[th] = "ok" THEN "broken" ELSE c[th]]

\* the server goes away: every open connection is lost
DbOutage ==
    /\ dbUp
    /\ dbUp' = FALSE
    /\ idleConn' = IF idleConn = "ok" THEN "broken" ELSE idleConn
    /\ conn0' = Break(conn0)
    /\ conn' = Break(conn)
    /\ UNCHANGED <<poolClosed, leaked, dpc, exc, stmts, pend, persisted, calls,
                   runs, rebuilt, uowErr, wrote, tcOutcome, outcome, payVars, sysVars>>

DbRestore ==
    /\ ~dbUp
    /\ dbUp' = TRUE
    /\ UNCHANGED <<poolClosed, idleConn, leaked, dpc, conn0, conn, exc, stmts,
                   pend, persisted, calls, runs, rebuilt, uowErr, wrote,
                   tcOutcome, outcome, payVars, sysVars>>

\* one connection in use is dropped (network reset, server-side kill)
DropConn(th) ==
    /\ conn[th] = "ok"
    /\ conn' = [conn EXCEPT ![th] = "broken"]
    /\ UNCHANGED <<dbUp, poolClosed, idleConn, leaked, dpc, conn0, exc, stmts,
                   pend, persisted, calls, runs, rebuilt, uowErr, wrote,
                   tcOutcome, outcome, payVars, sysVars>>

(***************************************************************************)
(* One database operation: a function decorated with execute_with_rollback *)
(* whose body is "with transaction_context() as cursor: <unit of work>"    *)
(***************************************************************************)
\* database.py:80: the wrapper takes its own connection
wrapper_getconn(th) ==
    /\ dpc[th] = "idle"
    /\ calls[th] < MaxCalls
    /\ calls' = [calls EXCEPT ![th] = @ + 1]
    /\ LET r == get_db_connection
       IN IF IsConn(r)
            THEN /\ conn0' = [conn0 EXCEPT ![th] = r]
                 /\ idleConn' = idle_after_getconn
                 /\ dpc' = [dpc EXCEPT ![th] = "tc_get"]
                 /\ UNCHANGED outcome
            ELSE \* raised before the try: nothing to release
                 /\ outcome' = [outcome EXCEPT ![th] = r]
                 /\ dpc' = [dpc EXCEPT ![th] = "done"]
                 /\ UNCHANGED <<conn0, idleConn>>
    /\ UNCHANGED <<dbUp, poolClosed, leaked, conn, exc, stmts, pend, persisted,
                   runs, rebuilt, uowErr, wrote, tcOutcome, payVars, sysVars>>

\* database.py:59: conn = get_db_connection()
tc_getconn(th) ==
    /\ dpc[th] = "tc_get"
    /\ LET r == get_db_connection
       IN IF IsConn(r)
            THEN /\ conn' = [conn EXCEPT ![th] = r]
                 /\ idleConn' = idle_after_getconn
                 /\ dpc' = [dpc EXCEPT ![th] = "tc_cursor"]
                 /\ UNCHANGED <<exc, tcOutcome>>
            ELSE /\ exc' = [exc EXCEPT ![th] = r]
                 /\ tcOutcome' = [tcOutcome EXCEPT ![th] = r]
                 /\ dpc' = [dpc EXCEPT ![th] = "w_except"]
                 /\ UNCHANGED <<conn, idleConn>>
    /\ UNCHANGED <<dbUp, poolClosed, leaked, conn0, stmts, pend, persisted,
                   calls, runs, rebuilt, uowErr, wrote, outcome, payVars, sysVars>>

\* database.py:60-62: cursor = conn.cursor(), outside the try; then the
\* generator yields and the unit of work starts
tc_cursor(th) ==
    /\ dpc[th] = "tc_cursor"
    /\ IF conn[th] = "closed"
         THEN \* InterfaceError before the try: the finally never runs and
              \* the connection stays in _used
              /\ exc' = [exc EXCEPT ![th] = "InterfaceError"]
              /\ tcOutcome' = [tcOutcome EXCEPT ![th] = "InterfaceError"]
              /\ conn' = [conn EXCEPT ![th] = "none"]
              /\ leaked' = leaked + 1
              /\ dpc' = [dpc EXCEPT ![th] = "w_except"]
              /\ UNCHANGED <<runs, stmts>>
         ELSE /\ runs' = [runs EXCEPT ![th] = @ + 1]
              /\ stmts' = [stmts EXCEPT ![th] = 0]
              /\ dpc' = [dpc EXCEPT ![th] = "body"]
              /\ UNCHANGED <<exc, tcOutcome, conn, leaked>>
    /\ UNCHANGED <<dbUp, poolClosed, idleConn, conn0, pend, persisted, calls,
                   rebuilt, uowErr, wrote, outcome, payVars, sysVars>>

\* the unit of work: one cursor.execute; result is what the server answers
\* on a healthy connection
uow_execute(th, result) ==
    /\ dpc[th] = "body"
    /\ stmts[th] < MaxStmts
    /\ LET e == IF conn[th] = "ok" THEN result ELSE conn_error(conn[th])
       IN IF e = "none"
            THEN /\ stmts' = [stmts EXCEPT ![th] = @ + 1]
                 /\ wrote' = [wrote EXCEPT ![th] = @ + 1]
                 /\ pend' = [pend EXCEPT ![th] = @ \cup {Token(th)}]
                 /\ UNCHANGED <<exc, uowErr, dpc, conn>>
            ELSE /\ exc' = [exc EXCEPT ![th] = e]
                 /\ uowErr' = [uowErr EXCEPT ![th] = e]
                 /\ conn' = [conn EXCEPT ![th] = conn_after(@)]
                 /\ dpc' = [dpc EXCEPT ![th] =
                              IF is_connection_error(e) THEN "except_conn"
                                                        ELSE "except_other"]
                 /\ UNCHANGED <<stmts, wrote, pend>>
    /\ UNCHANGED <<dbUp, poolClosed, idleConn, leaked, conn0, persisted, calls,
                   runs, rebuilt, tcOutcome, outcome, payVars, sysVars>>

\* the with-body ends normally
uow_done(th) ==
    /\ dpc[th] = "body"
    /\ stmts[th] >= 1
    /\ dpc' = [dpc EXCEPT ![th] = "commit"]
    /\ UNCHANGED <<dbUp, poolClosed, idleConn, leaked, conn0, conn, exc, stmts,
                   pend, persisted, calls, runs, rebuilt, uowErr, wrote,
                   tcOutcome, outcome, payVars, sysVars>>

\* database.py:63: conn.commit(), inside the try
tc_commit(th) ==
    /\ dpc[th] = "commit"
    /\ LET e == conn_error(conn[th])
       IN IF e = "none"
            THEN /\ persisted' = commit(persisted, pend[th])
                 /\ dpc' = [dpc EXCEPT ![th] = "tc_finally"]
                 /\ UNCHANGED <<exc, conn>>
            ELSE /\ exc' = [exc EXCEPT ![th] = e]
                 /\ conn' = [conn EXCEPT ![th] = conn_after(@)]
                 /\ dpc' = [dpc EXCEPT ![th] =
                              IF is_connection_error(e) THEN "except_conn"
                                                        ELSE "except_other"]
                 /\ UNCHANGED persisted
    /\ pend' = [pend EXCEPT ![th] = {}]
    /\ UNCHANGED <<dbUp, poolClosed, idleConn, leaked, conn0, stmts, calls,
                   runs, rebuilt, uowErr, wrote, tcOutcome, outcome, payVars, sysVars>>

\* database.py:64-70: the connection-error branch
tc_except_conn(th) ==
    /\ dpc[th] = "except_conn"
    /\ pend' = [pend EXCEPT ![th] = {}]
    /\ persisted' = except_rollback(persisted, pend[th])
    /\ dpc' = [dpc EXCEPT ![th] = except_conn_next]
    /\ LET e == conn_error(conn[th])
       IN IF e # "none"
            THEN \* line 66: conn.rollback() itself raises on the lost connection
                 /\ exc' = [exc EXCEPT ![th] = e]
                 /\ conn' = [conn EXCEPT ![th] = conn_after(@)]
                 /\ UNCHANGED <<poolClosed, idleConn, conn0, rebuilt>>
            ELSE \* line 67: recover_db_connection()
                 /\ rebuilt' = [rebuilt EXCEPT ![th] = TRUE]
                 /\ poolClosed' = TRUE
                 /\ idleConn' = IF idleConn = "none" THEN "none" ELSE "closed"
                 /\ conn0' = closed_all(conn0)
                 /\ LET r == recover_db_connection
                    IN IF IsConn(r)
                         THEN \* lines 68-69: a second yield; contextlib raises
                              \* RuntimeError("generator didn't stop after throw()")
                              /\ conn' = [closed_all(conn) EXCEPT ![th] = r]
                              /\ exc' = [exc EXCEPT ![th] = "RuntimeError"]
                         ELSE /\ conn' = closed_all(conn)
                              /\ exc' = [exc EXCEPT ![th] = r]
    /\ UNCHANGED <<dbUp, leaked, stmts, calls, runs, uowErr, wrote, tcOutcome,
                   outcome, payVars, sysVars>>

\* database.py:71-73: any other exception: rollback and re-raise
tc_except_other(th) ==
    /\ dpc[th] = "except_other"
    /\ pend' = [pend EXCEPT ![th] = {}]
    /\ persisted' = except_rollback(persisted, pend[th])
    /\ LET e == conn_error(conn[th])
       IN IF e # "none"
            THEN /\ exc' = [exc EXCEPT ![th] = e]
                 /\ conn' = [conn EXCEPT ![th] = conn_after(@)]
            ELSE UNCHANGED <<exc, conn>>
    /\ dpc' = [dpc EXCEPT ![th] = "tc_finally"]
    /\ UNCHANGED <<dbUp, poolClosed, idleConn, leaked, conn0, stmts, calls,
                   runs, rebuilt, uowErr, wrote, tcOutcome, outcome, payVars, sysVars>>

\* database.py:74-76: cursor.close(); put_db_connection(conn)
tc_finally(th) ==
    /\ dpc[th] = "tc_finally"
    /\ conn' = [conn EXCEPT ![th] = "none"]
    /\ IF putconn_raises
         THEN /\ exc' = [exc EXCEPT ![th] = "PoolError"]
              /\ leaked' = leaked + 1
              /\ UNCHANGED idleConn
         ELSE /\ idleConn' = idle_after_putconn(conn[th])
              /\ UNCHANGED <<exc, leaked>>
    /\ tcOutcome' = [tcOutcome EXCEPT ![th] =
                       IF exc'[th] = "none" THEN "ok" ELSE exc'[th]]
    /\ dpc' = [dpc EXCEPT ![th] =
                 IF exc'[th] = "none" THEN "w_finally" ELSE "w_except"]
    /\ UNCHANGED <<dbUp, poolClosed, conn0, stmts, pend, persisted, calls,
                   runs, rebuilt, uowErr, wrote, outcome, payVars, sysVars>>

\* database.py:83-86: the wrapper logs, rolls back its own connection, re-raises
wrapper_except(th) ==
    /\ dpc[th] = "w_except"
    /\ LET e == conn_error(conn0[th])
       IN IF e # "none"
            THEN /\ exc' = [exc EXCEPT ![th] = e]
                 /\ conn0' = [conn0 EXCEPT ![th] = conn_after(@)]
            ELSE UNCHANGED <<exc, conn0>>
    /\ dpc' = [dpc EXCEPT ![th] = "w_finally"]
    /\ UNCHANGED <<dbUp, poolClosed, idleConn, leaked, conn, stmts, pend,
                   persisted, calls, runs, rebuilt, uowErr, wrote, tcOutcome,
                   outcome, payVars, sysVars>>

\* database.py:87-88: put_db_connection(conn) of the wrapper; the call returns
wrapper_finally(th) ==
    /\ dpc[th] = "w_finally"
    /\ conn0' = [conn0 EXCEPT ![th] = "none"]
    /\ IF putconn_raises
         THEN /\ outcome' = [outcome EXCEPT ![th] = "PoolError"]
              /\ leaked' = leaked + 1
              /\ UNCHANGED idleConn
         ELSE /\ outcome' = [outcome EXCEPT ![th] =
                               IF exc[th] = "none" THEN "ok" ELSE exc[th]]
              /\ idleConn' = idle_after_putconn(conn0[th])
              /\ UNCHANGED leaked
    /\ exc' = [exc EXCEPT ![th] = "none"]
    /\ dpc' = [dpc EXCEPT ![th] = "done"]
    /\ UNCHANGED <<dbUp, poolClosed, conn, stmts, pend, persisted, calls, runs,
                   rebuilt, uowErr, wrote, tcOutcome, payVars, sysVars>>

\* the caller has the result (or the exception); the thread is free again
op_return(th) ==
    /\ dpc[th] = "done"
    /\ dpc' = [dpc EXCEPT ![th] = "idle"]
    /\ stmts' = [stmts EXCEPT ![th] = 0]
    /\ runs' = [runs EXCEPT ![th] = 0]
    /\ rebuilt' = [rebuilt EXCEPT ![th] = FALSE]
    /\ uowErr' = [uowErr EXCEPT ![th] = "none"]
    /\ wrote' = [wrote EXCEPT ![th] = 0]
    /\ tcOutcome' = [tcOutcome EXCEPT ![th] = "none"]
    /\ outcome' = [outcome EXCEPT ![th] = "none"]
    /\ UNCHANGED <<dbUp, poolClosed, idleConn, leaked, conn0, conn, exc, pend,
                   persisted, calls, payVars, sysVars>>

(***************************************************************************)
(* Specifications                                                          *)
(***************************************************************************)
IssuedAddrs == 1 .. (nextAddr - 1)

LedgerNext ==
    \/ \E t \in Txs, a \in Amounts, addr \in IssuedAddrs \cup {AbsentAddr} :
          LedgerReport(t, a, addr)
    \/ \E t \in Txs : LedgerConfirm(t)
    \/ LedgerToggle

PollNext ==
    \/ \E u \in Users, t \in Txs : record_payment(u, t)
    \/ monitor_payments_begin
    \/ \E p \in pollQueue : check_payment_confirmation(p)
    \/ monitor_payments_sleep

\* the poll loop and the verify_payment callers run concurrently
Next ==
    \/ LedgerNext
    \/ \E u \in Users, a \in Amounts : generate_payment_address(u, a)
    \/ \E th \in VerifyThreads, u \in Users, t \in Txs, a \in Amounts :
          verify_payment_gate(th, u, t, a)
    \/ \E th \in VerifyThreads : verify_payment_confirm(th)
    \/ PollNext

Spec == Init /\ [][Next]_vars

\* a sequential run: one thread calls verify_payment, the clock advances
SeqThread == "v1"

SeqNext ==
    \/ Tick
    \/ LedgerNext
    \/ \E u \in Users, a \in Amounts : generate_payment_address(u, a)
    \/ \E u \in Users, t \in Txs, a \in Amounts :
          verify_payment_gate(SeqThread, u, t, a)
    \/ verify_payment_confirm(SeqThread)
    \/ PollNext

SpecSeq == Init /\ [][SeqNext]_vars

\* the sequential run with the rejections of verify_payment observed
ObservedNext ==
    \/ Tick
    \/ LedgerNext
    \/ \E u \in Users, a \in Amounts : generate_payment_address(u, a)
    \/ \E u \in Users, t \in Txs, a \in Amounts :
          verify_payment_gate(SeqThread, u, t, a)
    \/ verify_payment_confirm_observed(SeqThread)
    \/ PollNext

SpecObserved == Init /\ [][ObservedNext]_vars

\* the addresses a ledger entry may carry: an issued one, None, or no
\* 'address' key at all
LedgerAddrs == IssuedAddrs \cup {NoAddr, AbsentAddr}

\* verify_payment callers against a ledger that may return any entry
VerifyNext ==
    \/ \E t \in Txs, a \in Amounts, addr \in LedgerAddrs :
          LedgerReport(t, a, addr)
    \/ \E t \in Txs : LedgerConfirm(t)
    \/ LedgerToggle
    \/ \E u \in Users, a \in Amounts : generate_payment_address(u, a)
    \/ \E th \in VerifyThreads, u \in Users, t \in Txs, a \in Amounts :
          verify_payment_gate(th, u, t, a)
    \/ \E th \in VerifyThreads : verify_payment_confirm(th)

SpecVerify == Init /\ [][VerifyNext]_vars

\* the poll loop on its own, observed, next to the ledger and the database
PollLoopNext ==
    \/ \E t \in PollTxs, a \in Amounts : LedgerReport(t, a, AbsentAddr)
    \/ \E t \in PollTxs : LedgerConfirm(t)
    \/ LedgerToggle
    \/ DbOutage
    \/ DbRestore
    \/ \E u \in Users, t \in PollTxs : record_payment(u, t)
    \/ monitor_payments_begin_observed
    \/ monitor_payments_fail
    \/ \E p \in pollQueue : check_payment_confirmation_observed(p)
    \/ monitor_payments_sleep

SpecPollLoop == Init /\ [][PollLoopNext]_vars

\* what a statement may answer on a healthy connection: success, a constraint
\* violation, or an operational error that leaves the connection open
StmtResults == {"none", "IntegrityError", "OperationalError"}

DbNext ==
    \/ DbOutage
    \/ DbRestore
    \/ \E th \in DbThreads : DropConn(th)
    \/ \E th \in DbThreads : wrapper_getconn(th)
    \/ \E th \in DbThreads : tc_getconn(th)
    \/ \E th \in DbThreads : tc_cursor(th)
    \/ \E th \in DbThreads, r \in StmtResults : uow_execute(th, r)
    \/ \E th \in DbThreads : uow_done(th)
    \/ \E th \in DbThreads : tc_commit(th)
    \/ \E th \in DbThreads : tc_except_conn(th)
    \/ \E th \in DbThreads : tc_except_other(th)
    \/ \E th \in DbThreads : tc_finally(th)
    \/ \E th \in DbThreads : wrapper_except(th)
    \/ \E th \in DbThreads : wrapper_finally(th)
    \/ \E th \in DbThreads : op_return(th)

SpecDb == Init /\ [][DbNext]_vars

\* system_health.py:68-77: get_db_connection(), cursor, SELECT 1; the
\* connection is never handed back to put_db_connection, so its entry stays
\* in the pool's used table
check_db_connection ==
    LET r == get_db_connection
    IN IF IsConn(r)
         THEN /\ idleConn' = idle_after_getconn
              /\ leaked' = leaked + 1
         ELSE UNCHANGED <<idleConn, leaked>>

\* True is returned when the connection was obtained and SELECT 1 ran
check_db_connection_ok == get_db_connection = "ok"

\* monitoring.py:40-53, the /health endpoint: the same code
health_check ==
    /\ check_db_connection
    /\ UNCHANGED <<dbUp, poolClosed, dpc, conn0, conn, exc, stmts, pend,
                   persisted, calls, runs, rebuilt, uowErr, wrote, tcOutcome,
                   outcome, payVars, sysVars>>

\* database operations and health probes share the pool; the server stays up
PoolNext ==
    \/ health_check
    \/ \E th \in DbThreads : wrapper_getconn(th)
    \/ \E th \in DbThreads : tc_getconn(th)
    \/ \E th \in DbThreads : tc_cursor(th)
    \/ \E th \in DbThreads, r \in StmtResults : uow_execute(th, r)
    \/ \E th \in DbThreads : uow_done(th)
    \/ \E th \in DbThreads : tc_commit(th)
    \/ \E th \in DbThreads : tc_except_conn(th)
    \/ \E th \in DbThreads : tc_except_other(th)
    \/ \E th \in DbThreads : tc_finally(th)
    \/ \E th \in DbThreads : wrapper_except(th)
    \/ \E th \in DbThreads : wrapper_finally(th)
    \/ \E th \in DbThreads : op_return(th)

SpecPool == Init /\ [][PoolNext]_vars

(***************************************************************************)
(* CircuitBreaker (src/system_health.py:13-27)                             *)
(***************************************************************************)
\* system_health.py:21
allow_request_at_cooldown == clock - last_failure >= timeout

allow_request == clock - last_failure > timeout

\* time passes; the calls and requests of the previous instant are over
BreakerTick ==
    /\ clock - StartTime < MaxBreakerTicks * BreakerStep
    /\ clock' = clock + BreakerStep
    /\ allowRet' = "none"
    /\ req' = NoReq
    /\ resp' = 0
    /\ audited' = 0
    /\ UNCHANGED <<failures, last_failure, payVars, dbVars, shVars, vaVars, sdVars>>

\* system_health.py:23-27
record_failure ==
    /\ failures < MaxFailures
    /\ failures' = failures + 1
    /\ last_failure' = clock
    /\ allowRet' = "none"
    /\ UNCHANGED <<clock, req, resp, audited, payVars, dbVars, shVars, vaVars, sdVars>>

\* a caller asks the breaker: system_health.py:20-21
allow_request_call ==
    /\ allowRet = "none"
    /\ allowRet' = IF allow_request THEN "True" ELSE "False"
    /\ UNCHANGED <<clock, failures, last_failure, req, resp, audited,
                   payVars, dbVars, shVars, vaVars, sdVars>>

BreakerNext ==
    \/ BreakerTick
    \/ record_failure
    \/ allow_request_call

SpecBreaker == Init /\ [][BreakerNext]_vars

(***************************************************************************)
(* The webhook endpoints (src/main.py:237-265)                             *)
(***************************************************************************)
\* security_utils.py:102-110: hmac.compare_digest(computed, signature)
\* raises TypeError when the header is missing (signature is None)
verify_webhook_signature(sig) ==
    IF sig = "absent" THEN "TypeError"
    ELSE IF sig = "valid" THEN "True" ELSE "False"

\* security_utils.py:113-116
validate_webhook_payload(fields) == RequiredFields \subseteq fields

\* main.py:237-254
kofi_webhook(sig, fields) ==
    /\ req' = [endpoint |-> "kofi", signature |-> sig, fields |-> fields]
    /\ allowRet' = IF allow_request THEN "True" ELSE "False"
    /\ IF ~allow_request
         THEN /\ resp' = 503
              /\ audited' = 0
              /\ UNCHANGED <<failures, last_failure>>
         ELSE IF verify_webhook_signature(sig) = "TypeError"
         THEN \* the exception leaves the view: Flask answers 500
              /\ resp' = 500
              /\ audited' = 0
              /\ UNCHANGED <<failures, last_failure>>
         ELSE IF \/ verify_webhook_signature(sig) # "True"
                 \/ ~validate_webhook_payload(fields)
         THEN /\ failures < MaxFailures
              /\ failures' = failures + 1
              /\ last_failure' = clock
              /\ audited' = 1
              /\ resp' = 403
         ELSE /\ audited' = 1
              /\ resp' = 200
              /\ UNCHANGED <<failures, last_failure>>
    /\ UNCHANGED <<clock, payVars, dbVars, shVars, vaVars, sdVars>>

\* main.py:257-265
binance_webhook(sig, fields) ==
    /\ req' = [endpoint |-> "binance", signature |-> sig, fields |-> fields]
    /\ allowRet' = IF allow_request THEN "True" ELSE "False"
    /\ resp' = IF ~allow_request THEN 503 ELSE 200
    /\ audited' = 0
    /\ UNCHANGED <<clock, failures, last_failure, payVars, dbVars, shVars, vaVars, sdVars>>

WebhookNext ==
    \/ BreakerTick
    \/ \E sig \in Signatures, fields \in Payloads : kofi_webhook(sig, fields)
    \/ \E sig \in Signatures, fields \in Payloads : binance_webhook(sig, fields)

SpecWebhook == Init /\ [][WebhookNext]_vars

(***************************************************************************)
(* SystemHealth (src/system_health.py:33-160)                              *)
(***************************************************************************)
\* system_health.py:141-160: with no admin id the call returns at once;
\* otherwise the finally clause calls secure_erase, a name the module never
\* imports, and NameError leaves the function
send_admin_alert == IF adminSet THEN "NameError" ELSE "none"

\* the checks that fail in a probe cycle (lines 56-61) in which the checks
\* of set other fail
failing(other) ==
    other \cup (IF check_db_connection_ok THEN {} ELSE {"db"})

HealthTick ==
    /\ clock - StartTime < MaxHealthTicks * HealthStep
    /\ clock' = clock + HealthStep
    /\ UNCHANGED <<failures, last_failure, allowRet, req, resp, audited,
                   payVars, dbVars, shVars, vaVars, sdVars>>

\* system_health.py:41-48
report_error_body ==
    /\ error_count < MaxErrors
    /\ error_count' = error_count + 1
    /\ firstErrAt' = IF error_count = 0 THEN clock ELSE firstErrAt
    /\ IF error_count' > max_errors
         THEN IF send_admin_alert # "none"
                THEN \* line 47 raises: line 48 is not reached
                     /\ repRet' = send_admin_alert
                     /\ restarted' = FALSE
                ELSE \* line 48: restart_service()
                     /\ repRet' = "returned"
                     /\ restarted' = TRUE
         ELSE /\ repRet' = "returned"
              /\ restarted' = FALSE
    /\ UNCHANGED <<adminSet, last_check, hpc, status, probes, rounds, reported,
                   hret>>

report_error ==
    /\ report_error_body
    /\ UNCHANGED <<brVars, vaVars, sdVars, payVars, dbVars>>

\* system_health.py:50-53; no code of the repository calls it
periodic_check ==
    /\ IF clock - last_check > reset_interval
         THEN /\ error_count' = 0
              /\ last_check' = clock
         ELSE UNCHANGED <<error_count, last_check>>
    /\ UNCHANGED <<adminSet, firstErrAt, repRet, restarted, hpc, status, probes,
                   rounds, reported, hret, brVars, vaVars, sdVars, payVars, dbVars>>

\* system_health.py:55-66, called by the job queue (main.py:573-577): the
\* probe cycle of the outermost run_checks
run_checks(other) ==
    /\ hpc = "idle"
    /\ check_db_connection
    /\ probes' = 1
    /\ status' = failing(other)
    /\ IF failing(other) = {}
         THEN /\ hpc' = "done"
              /\ hret' = "returned"
         ELSE /\ hpc' = "recover"
              /\ UNCHANGED hret
    /\ UNCHANGED <<adminSet, error_count, last_check, firstErrAt, repRet,
                   restarted, rounds, reported, brVars, vaVars, sdVars, payVars, dbUp,
                   poolClosed, dpc, conn0, conn, exc, stmts, pend, persisted,
                   calls, runs, rebuilt, uowErr, wrote, tcOutcome, outcome>>

\* system_health.py:100-120: the alert, the recovery commands for the failed
\* checks, then run_checks() again (line 118); when that probe cycle is
\* clean every recover_system frame on the stack sends its report and
\* returns, otherwise run_checks enters recover_system once more
recover_system(other) ==
    /\ hpc = "recover"
    /\ IF send_admin_alert # "none"
         THEN \* line 102 raises: nothing is recovered, run_checks raises
              /\ hpc' = "done"
              /\ hret' = send_admin_alert
              /\ UNCHANGED <<status, probes, rounds, reported, idleConn, leaked>>
         ELSE /\ rounds < MaxRounds
              /\ rounds' = rounds + 1
              /\ check_db_connection
              /\ probes' = probes + 1
              /\ status' = failing(other)
              /\ IF failing(other) = {}
                   THEN /\ hpc' = "done"
                        /\ hret' = "returned"
                        /\ reported' = rounds'
                   ELSE UNCHANGED <<hpc, hret, reported>>
    /\ UNCHANGED <<adminSet, error_count, last_check, firstErrAt, repRet,
                   restarted, brVars, vaVars, sdVars, payVars, dbUp, poolClosed, dpc, conn0,
                   conn, exc, stmts, pend, persisted, calls, runs, rebuilt,
                   uowErr, wrote, tcOutcome, outcome>>

\* the job queue has the result (or the exception) of run_checks
run_checks_return ==
    /\ hpc = "done"
    /\ hpc' = "idle"
    /\ status' = {}
    /\ probes' = 0
    /\ rounds' = 0
    /\ reported' = 0
    /\ hret' = "none"
    /\ UNCHANGED <<adminSet, error_count, last_check, firstErrAt, repRet,
                   restarted, brVars, vaVars, sdVars, payVars, dbVars>>

HealthNext ==
    \/ HealthTick
    \/ report_error
    \/ \E other \in SUBSET OtherChecks : run_checks(other)
    \/ \E other \in SUBSET OtherChecks : recover_system(other)
    \/ run_checks_return

SpecHealth == HealthAnyInit /\ [][HealthNext]_vars

(***************************************************************************)
(* SecureKeyStorage and the cipher functions (src/security_utils.py:20-90) *)
(***************************************************************************)
\* the buffer that holds secret value v itself
Orig(v) == [val |-> v, copy |-> FALSE]

\* security_utils.py:43-56 secure_erase(data): the buffers it fills with
\* zeros. For a str it is bytearray(data.encode()), for bytes it is
\* ctypes.create_string_buffer(data): a fresh copy either way
secure_erase(v) == IF v = NoKey THEN {} ELSE {[val |-> v, copy |-> TRUE]}

\* security_utils.py:24-27
store_key(n, v) ==
    /\ keys' = [keys EXCEPT ![n] = v]
    /\ lastEnc' = NoEnc
    /\ lastDec' = NoDec
    /\ UNCHANGED <<zeroed, brVars, shVars, sdVars, payVars, dbVars>>

\* security_utils.py:29-32
get_key(n) == keys[n]

\* security_utils.py:34-40, under the class lock from start to end
erase_all_effect ==
    /\ zeroed' = zeroed \cup UNION {secure_erase(keys[n]) : n \in KeyNames}
    /\ keys' = [n \in KeyNames |-> NoKey]
    /\ lastEnc' = NoEnc
    /\ lastDec' = NoDec

erase_all ==
    /\ \E n \in KeyNames : keys[n] # NoKey
    /\ erase_all_effect
    /\ UNCHANGED <<brVars, shVars, sdVars, payVars, dbVars>>

\* 'if not key' (lines 65, 78)
key_available_always(k) == TRUE

key_available(k) == k # NoKey

\* Fernet(key) raises ValueError unless key is 32 url-safe base64 bytes
fernet_key_valid(k) == k \in {"k1", "k2"}

\* security_utils.py:59-69
encrypt_data(data, key) ==
    IF data = "" THEN [exc |-> "none", ct |-> EmptyCt]
    ELSE IF ~key_available(key) THEN [exc |-> "KeyUnavailable", ct |-> EmptyCt]
    ELSE IF ~fernet_key_valid(key) THEN [exc |-> "ValueError", ct |-> EmptyCt]
    ELSE [exc |-> "none", ct |-> FernetToken(key, data)]

\* security_utils.py:85-90: both except clauses log and return ""
except_result_reraise(e) == [exc |-> e, val |-> ""]

except_result(e) == [exc |-> "none", val |-> ""]

\* security_utils.py:72-90
decrypt_data(data, key) ==
    IF data.kind = "empty" THEN [exc |-> "none", val |-> ""]
    ELSE IF ~key_available(key) THEN [exc |-> "KeyUnavailable", val |-> ""]
    ELSE IF ~fernet_key_valid(key) THEN except_result("ValueError")
    ELSE IF data.kind = "nothex" THEN except_result("binascii.Error")
    ELSE IF data.kind = "garbage" \/ data.key # key
           THEN except_result("InvalidToken")
    ELSE [exc |-> "none", val |-> data.plain]

\* a caller encrypts data
encrypt_data_call(data) ==
    /\ LET key == get_key("MASTER_ENCRYPTION")
           r == encrypt_data(data, key)
       IN lastEnc' = [called |-> TRUE, data |-> data, key |-> key,
                      exc |-> r.exc, ct |-> r.ct]
    /\ lastDec' = NoDec
    /\ UNCHANGED <<keys, zeroed, brVars, shVars, sdVars, payVars, dbVars>>

\* a caller decrypts data
decrypt_data_call(data) ==
    /\ LET key == get_key("MASTER_ENCRYPTION")
           r == decrypt_data(data, key)
       IN lastDec' = [called |-> TRUE, data |-> data, key |-> key,
                      exc |-> r.exc, val |-> r.val]
    /\ lastEnc' = NoEnc
    /\ UNCHANGED <<keys, zeroed, brVars, shVars, sdVars, payVars, dbVars>>

VaultNext ==
    \/ \E n \in KeyNames, v \in KeyValues : store_key(n, v)
    \/ erase_all
    \/ \E data \in Plains : encrypt_data_call(data)
    \/ \E data \in Ciphertexts : decrypt_data_call(data)

SpecVault == Init /\ [][VaultNext]_vars

(* C24: store_key on a name that already holds a secret replaces it and    *)
(* zeroes the prior value: after the step the name holds the new value and *)
(* the buffer of the value it replaced has been overwritten with zeros.    *)
C24_StoreZeroesPrior ==
    [][\A n \in KeyNames :
          (keys[n] # NoKey /\ keys'[n] # NoKey /\ keys'[n] # keys[n])
              => Orig(keys[n]) \in zeroed']_vars

(* C25: after erase_all every secret that was stored has been zeroed and   *)
(* removed: in the state that follows an erasure get_key returns absent    *)
(* for every name (never for some names only) and the buffer of every      *)
(* value that was stored has been overwritten with zeros.                  *)
C25_EraseZeroesAndRemoves ==
    [][(\E n \in KeyNames : keys[n] # NoKey /\ keys'[n] = NoKey)
          => /\ \A n \in KeyNames : get_key(n)' = NoKey
             /\ \A n \in KeyNames :
                   keys[n] # NoKey => Orig(keys[n]) \in zeroed']_vars

\* the ciphertext of the last decrypt_data call is not valid hex, or does
\* not decrypt under the key that call read
Undecryptable ==
    \/ lastDec.data.kind \in {"nothex", "garbage"}
    \/ lastDec.data.kind = "token" /\ lastDec.data.key # lastDec.key

(* C26: decrypt_data fails closed: called with a key stored, for a         *)
(* ciphertext that is not valid hex or that does not decrypt under the     *)
(* current key it returns the empty string and raises nothing.             *)
C26_DecryptFailsClosed ==
    (lastDec.called /\ key_available(lastDec.key) /\ Undecryptable)
        => lastDec.exc = "none" /\ lastDec.val = ""

C26_Witness ==
    /\ lastDec.called
    /\ lastDec.key = "k1"
    /\ lastDec.data = FernetToken("k2", "p1")
    /\ lastDec.exc = "none"
    /\ lastDec.val = ""

(* C27: encrypt_data raises the key-unavailable error for a non-empty      *)
(* input whenever no MASTER_ENCRYPTION secret is stored, returns the empty *)
(* string for empty input, and returns a ciphertext only when a key is     *)
(* stored, and then one made with that key.                                *)
C27_EncryptNeedsKey ==
    lastEnc.called =>
        /\ (lastEnc.data # "" /\ lastEnc.key = NoKey)
              => lastEnc.exc = "KeyUnavailable"
        /\ lastEnc.data = ""
              => lastEnc.exc = "none" /\ lastEnc.ct = EmptyCt
        /\ lastEnc.ct # EmptyCt
              => /\ lastEnc.key # NoKey
                 /\ lastEnc.ct = FernetToken(lastEnc.key, lastEnc.data)

C27_Witness ==
    /\ lastEnc.called
    /\ lastEnc.data = "p1"
    /\ lastEnc.key = NoKey
    /\ lastEnc.exc = "KeyUnavailable"
    /\ lastEnc.ct = EmptyCt

(***************************************************************************)
(* Shutdown (src/main.py:523-605)                                          *)
(***************************************************************************)
\* the two Binance credentials held by the PaymentProcessor
ApiSecrets == {"api_key", "api_secret"}

\* main.py:535-536 registered graceful_shutdown for SIGINT and SIGTERM. A
\* signal that arrives before line 600 finds main outside the try statement;
\* one that arrives after line 600 and before run_polling has replaced the
\* handlers finds it inside (inTry)
signal_shutdown(inTry) ==
    /\ gpc = "main"
    /\ gpc' = "g_pp"
    /\ cause' = "signal"
    /\ again' = inTry
    /\ UNCHANGED <<ppRunning, ppJoined, acRunning, acJoined, eraseCalls,
                   exitHow, bpc, loadPos, brVars, shVars, vaVars, payVars, dbVars>>

\* main.py:601, 605: run_polling returns; the finally clause runs
polling_returns ==
    /\ gpc = "main"
    /\ gpc' = "g_pp"
    /\ cause' = "returned"
    /\ again' = FALSE
    /\ UNCHANGED <<ppRunning, ppJoined, acRunning, acJoined, eraseCalls,
                   exitHow, bpc, loadPos, brVars, shVars, vaVars, payVars, dbVars>>

\* main.py:601-602: run_polling raises an Exception
polling_fails ==
    /\ gpc = "main"
    /\ gpc' = "except"
    /\ cause' = "failed"
    /\ again' = FALSE
    /\ UNCHANGED <<ppRunning, ppJoined, acRunning, acJoined, eraseCalls,
                   exitHow, bpc, loadPos, brVars, shVars, vaVars, payVars, dbVars>>

\* main.py:602-605: healing_system.report_error(e), then the finally clause
\* whether report_error returned or raised
main_except ==
    /\ gpc = "except"
    /\ report_error_body
    /\ gpc' = "g_pp"
    /\ UNCHANGED <<cause, again, ppRunning, ppJoined, acRunning, acJoined,
                   eraseCalls, exitHow, bpc, loadPos, brVars, vaVars, payVars, dbVars>>

\* main.py:524-526 and payment_processor.py:98-103 PaymentProcessor.shutdown
payment_processor_shutdown ==
    /\ gpc = "g_pp"
    /\ ppRunning' = FALSE
    /\ ppJoined' = TRUE
    /\ zeroed' = zeroed \cup UNION {secure_erase(v) : v \in ApiSecrets}
    /\ gpc' = "g_close"
    /\ UNCHANGED <<cause, again, acRunning, acJoined, eraseCalls, exitHow,
                   keys, lastEnc, lastDec, bpc, loadPos, brVars, shVars, payVars, dbVars>>

\* main.py:527 close_all_connections() (database.py:33-34): closeall() on a
\* pool that is already closed raises PoolError, which leaves
\* graceful_shutdown; raised inside main's try it is handled by lines
\* 602-605, anywhere else it ends the process
close_all_connections ==
    /\ gpc = "g_close"
    /\ IF poolClosed
         THEN /\ gpc' = IF again THEN "except" ELSE "exited"
              /\ exitHow' = IF again THEN exitHow ELSE "PoolError"
              /\ again' = FALSE
              /\ UNCHANGED <<poolClosed, idleConn, conn0, conn>>
         ELSE /\ gpc' = "g_erase"
              /\ poolClosed' = TRUE
              /\ idleConn' = IF idleConn = "none" THEN "none" ELSE "closed"
              /\ conn0' = closed_all(conn0)
              /\ conn' = closed_all(conn)
              /\ UNCHANGED <<again, exitHow>>
    /\ UNCHANGED <<cause, ppRunning, ppJoined, acRunning, acJoined, eraseCalls,
                   dbUp, leaked, dpc, exc, stmts, pend, persisted, calls, runs,
                   rebuilt, uowErr, wrote, tcOutcome, outcome,
                   bpc, loadPos, brVars, shVars, vaVars, payVars>>

\* main.py:528 SecureKeyStorage.erase_all()
shutdown_erase_all ==
    /\ gpc = "g_erase"
    /\ erase_all_effect
    /\ eraseCalls' = eraseCalls + 1
    /\ gpc' = "g_stop"
    /\ UNCHANGED <<cause, again, ppRunning, ppJoined, acRunning, acJoined,
                   exitHow, bpc, loadPos, brVars, shVars, payVars, dbVars>>

\* main.py:529 and admin_panel.py:213-216 AutoCommenter.stop
commenter_stop ==
    /\ gpc = "g_stop"
    /\ acRunning' = FALSE
    /\ acJoined' = TRUE
    /\ gpc' = "g_exit"
    /\ UNCHANGED <<cause, again, ppRunning, ppJoined, eraseCalls, exitHow,
                   bpc, loadPos, brVars, shVars, vaVars, payVars, dbVars>>

\* main.py:530-531 gc.collect(); sys.exit(0). SystemExit is not an Exception:
\* raised inside main's try it skips line 602 and runs the finally clause,
\* which calls graceful_shutdown a second time
sys_exit ==
    /\ gpc = "g_exit"
    /\ IF again
         THEN /\ gpc' = "g_pp"
              /\ UNCHANGED exitHow
         ELSE /\ gpc' = "exited"
              /\ exitHow' = "exit0"
    /\ again' = FALSE
    /\ UNCHANGED <<cause, ppRunning, ppJoined, acRunning, acJoined,
                   eraseCalls, bpc, loadPos, brVars, shVars, vaVars, payVars, dbVars>>

\* the shutdown next to one database client
ShutdownNext ==
    \/ \E inTry \in BOOLEAN : signal_shutdown(inTry)
    \/ polling_returns
    \/ polling_fails
    \/ main_except
    \/ payment_processor_shutdown
    \/ close_all_connections
    \/ shutdown_erase_all
    \/ commenter_stop
    \/ sys_exit
    \/ DbOutage
    \/ DbRestore
    \/ DropConn("d1")
    \/ wrapper_getconn("d1")
    \/ tc_getconn("d1")
    \/ tc_cursor("d1")
    \/ \E r \in StmtResults : uow_execute("d1", r)
    \/ uow_done("d1")
    \/ tc_commit("d1")
    \/ tc_except_conn("d1")
    \/ tc_except_other("d1")
    \/ tc_finally("d1")
    \/ wrapper_except("d1")
    \/ wrapper_finally("d1")
    \/ op_return("d1")

SpecShutdown == Init /\ [][ShutdownNext]_vars

(***************************************************************************)
(* Start-up (src/main.py:33-62, src/config.py:12-42)                       *)
(***************************************************************************)
\* what os.getenv(field) may return: None, or a non-empty string
EnvValues == Plains

\* config.py:30-33, reached from main.py:33 through config.py:42: one round
\* of the loop of SecureConfig.load. An exception of encrypt_data leaves
\* load, the import of config and main.py
config_load_field(value) ==
    /\ bpc = "config_load"
    /\ loadPos <= Len(encrypted_fields)
    /\ IF value # ""
         THEN LET key == get_key("MASTER_ENCRYPTION")
                  r == encrypt_data(value, key)
              IN /\ lastEnc' = [called |-> TRUE, data |-> value, key |-> key,
                                exc |-> r.exc, ct |-> r.ct]
                 /\ IF r.exc # "none"
                      THEN bpc' = "crashed" /\ UNCHANGED loadPos
                      ELSE loadPos' = loadPos + 1 /\ UNCHANGED bpc
         ELSE /\ loadPos' = loadPos + 1
              /\ UNCHANGED <<bpc, lastEnc>>
    /\ UNCHANGED <<keys, zeroed, lastDec, gpc, cause, again, ppRunning,
                   ppJoined, acRunning, acJoined, eraseCalls, exitHow,
                   brVars, shVars, payVars, dbVars>>

\* config.py:42 returns; main.py:34-61
config_load_done ==
    /\ bpc = "config_load"
    /\ loadPos = Len(encrypted_fields) + 1
    /\ bpc' = "store_key"
    /\ UNCHANGED <<loadPos, gpc, cause, again, ppRunning, ppJoined, acRunning,
                   acJoined, eraseCalls, exitHow, vaVars,
                   brVars, shVars, payVars, dbVars>>

\* main.py:62: SecureKeyStorage.store_key('MASTER_ENCRYPTION',
\* os.getenv('MASTER_ENCRYPTION_KEY')); the variable may be unset
main_store_key(v) ==
    /\ bpc = "store_key"
    /\ keys' = [keys EXCEPT !["MASTER_ENCRYPTION"] = v]
    /\ bpc' = "up"
    /\ UNCHANGED <<loadPos, gpc, cause, again, ppRunning, ppJoined, acRunning,
                   acJoined, eraseCalls, exitHow, zeroed, lastEnc, lastDec,
                   brVars, shVars, payVars, dbVars>>

\* the start-up, and the Vault and cipher calls of the running program
BootNext ==
    \/ \E value \in EnvValues : config_load_field(value)
    \/ config_load_done
    \/ \E v \in KeyValues \cup {NoKey} : main_store_key(v)
    \/ bpc = "up" /\ VaultNext

SpecBoot == BootInit /\ [][BootNext]_vars

(* C39: at process start the MASTER_ENCRYPTION secret is stored before the *)
(* first cipher call: while main.py is starting, encrypt_data has not been *)
(* run with no master secret in the Vault.                                 *)
C39_KeyStoredBeforeEncrypt ==
    (bpc # "up" /\ lastEnc.called) => lastEnc.key # NoKey

\* every background loop has been told to stop and has been joined
LoopsStopped == ~ppRunning /\ ppJoined /\ ~acRunning /\ acJoined

(* C22: graceful_shutdown signals and joins every background loop (payment *)
(* monitor, auto-commenter) before the Vault is erased: erase_all has not  *)
(* run while some loop is still unsignalled or unjoined.                   *)
C22_EraseAfterLoopsStopped == eraseCalls >= 1 => LoopsStopped

(* C23: in one graceful shutdown, however it was started, erase_all has    *)
(* been executed exactly once when the process has ended.                  *)
C23_EraseExactlyOnce == gpc = "exited" => eraseCalls = 1

(***************************************************************************)
(* Steps the properties speak about                                        *)
(***************************************************************************)
\* thread th returns True from verify_payment in this step
VerifyReturnsTrue(th) ==
    /\ vpc[th] = "checked"
    /\ vpc'[th] = "idle"
    /\ vret'[th] = "True"

\* the poll loop runs _confirm_payment for payment p in this step
PollConfirms(p) ==
    /\ p \in pollQueue
    /\ p \notin pollQueue'
    /\ pollCredits'[p.tx_id] = pollCredits[p.tx_id] + 1

HasWallet(u) == wallets[u] # NoWallet

\* u's wallet is past its expiry
Expired(u) == HasWallet(u) /\ now > wallets[u].expires

\* the ledger answers and reports tx t with amount a to u's wallet address
LedgerMatches(u, t, a) ==
    /\ ledgerUp
    /\ ledger[t].seen
    /\ ledger[t].amount = a
    /\ HasWallet(u)
    /\ ledger[t].address = wallets[u].address

(***************************************************************************)
(* C1: for every transaction identifier the subscription credit succeeds   *)
(* at most once, whatever the interleaving of the poll loop and the manual *)
(* verify_payment calls.                                                   *)
(***************************************************************************)
C1_CreditAtMostOnce ==
    \A t \in Txs : verifyCredits[t] + pollCredits[t] <= 1

(***************************************************************************)
(* C2: two concurrent verify_payment calls for the same transaction        *)
(* identifier never both return True.                                      *)
(***************************************************************************)
C2_NoTwoVerifyTrue ==
    \A t \in Txs :
        ~(\E th1, th2 \in VerifyThreads :
            /\ th1 # th2
            /\ vargs[th1].tx_id = t /\ vret[th1] = "True"
            /\ vargs[th2].tx_id = t /\ vret[th2] = "True")

(***************************************************************************)
(* C3: the poll path uses the double-spend gate: it confirms a pending     *)
(* payment only if its identifier is not yet in the DoubleSpendIndex, and  *)
(* it inserts the identifier when it confirms.                             *)
(***************************************************************************)
C3_PollUsesGate ==
    [][\A p \in pollQueue :
          PollConfirms(p) =>
              (p.tx_id \notin doubleSpend /\ p.tx_id \in doubleSpend')]_vars

(***************************************************************************)
(* C4: the poller confirms a pending record only if the reported amount    *)
(* equals the expected amount, the reported destination is the owning      *)
(* user's wallet address and at least one confirmation is reported.        *)
(***************************************************************************)
C4_PollChecksAll ==
    [][\A p \in pollQueue :
          PollConfirms(p) =>
              /\ HasWallet(p.user_id)
              /\ ledger[p.tx_id].amount = wallets[p.user_id].amount
              /\ ledger[p.tx_id].address = wallets[p.user_id].address
              /\ ledger[p.tx_id].confirmations >= 1]_vars

(***************************************************************************)
(* C5: a confirmation observed after the wallet's expiry (creation time +  *)
(* 1800 s) is rejected by verify_payment and by the poller, even when the  *)
(* amount and the address match.                                           *)
(***************************************************************************)
C5_ExpiredRejected ==
    [][/\ \A th \in VerifyThreads :
             VerifyReturnsTrue(th) => ~Expired(vargs[th].user_id)
       /\ \A p \in pollQueue :
             PollConfirms(p) => ~Expired(p.user_id)]_vars

(***************************************************************************)
(* C6: in a sequential run, once the ledger reports tx with amount a to    *)
(* U's wallet address, the first verify_payment(U, tx, a) returns True and *)
(* every later verify_payment with the same tx, for any user, returns      *)
(* False.                                                                  *)
(***************************************************************************)
C6_OnceThenNever ==
    [][LET th == SeqThread
           u == vargs[th].user_id
           t == vargs[th].tx_id
           a == vargs[th].amount
       IN /\ \* the first call: matching ledger entry, identifier not yet spent
             (/\ vpc[th] = "checked" /\ vpc'[th] = "idle"
              /\ t \notin doubleSpend
              /\ wallets[u].amount = a
              /\ LedgerMatches(u, t, a))
                => (vret'[th] = "True" /\ t \in doubleSpend')
          /\ \* later calls: a spent identifier is never confirmed again
             \A t2 \in Txs :
                t2 \in doubleSpend =>
                    /\ verifyCredits'[t2] = verifyCredits[t2]
                    /\ (vargs'[th].tx_id = t2 => vret'[th] # "running")
                    /\ t2 \in doubleSpend']_vars

\* tx1 was confirmed once for the wallet owner u1; a later call with tx1 for
\* the other user u2 has returned False
C6_Witness ==
    /\ verifyCredits["tx1"] = 1
    /\ ledger["tx1"].address = wallets["u1"].address
    /\ HasWallet("u1")
    /\ vargs[SeqThread] = [user_id |-> "u2", tx_id |-> "tx1",
                           amount |-> ledger["tx1"].amount]
    /\ vret[SeqThread] = "False"
    /\ vpc[SeqThread] = "idle"

(***************************************************************************)
(* Database operations: what the properties speak about                    *)
(***************************************************************************)
\* transaction_context has been left by thread th in its current call
TcExited(th) ==
    /\ dpc[th] \in {"w_except", "w_finally", "done"}
    /\ tcOutcome[th] # "none"

\* the unit of work of th's current call raised a connection-level error
UowConnError(th) == uowErr[th] \in {"OperationalError", "InterfaceError"}

\* the unit of work of th's current call raised a logic error
UowLogicError(th) == uowErr[th] = "IntegrityError"

PcRank(pc) ==
    CASE pc = "idle" -> 0
      [] pc = "tc_get" -> 1
      [] pc = "tc_cursor" -> 2
      [] pc = "body" -> 3
      [] pc = "commit" -> 4
      [] pc = "except_conn" -> 5
      [] pc = "except_other" -> 5
      [] pc = "tc_finally" -> 6
      [] pc = "w_except" -> 7
      [] pc = "w_finally" -> 8
      [] pc = "done" -> 9

(***************************************************************************)
(* C7: on a single connection-level error raised during the unit of work,  *)
(* transaction_context rolls back, rebuilds the pool, reacquires a lease   *)
(* and re-executes the unit of work exactly one additional time.           *)
(***************************************************************************)
C7_RetriedOnce ==
    \A th \in DbThreads :
        (TcExited(th) /\ UowConnError(th)) =>
            (runs[th] = 2 /\ rebuilt[th])

(***************************************************************************)
(* C8: when the unit of work throws partway through, every write it made   *)
(* is rolled back and the persisted state is what it was before the call;  *)
(* writes become visible only by the commit on the success path.           *)
(***************************************************************************)
C8_RollbackOnThrow ==
    /\ [](\A th \in DbThreads :
            uowErr[th] # "none" =>
                /\ Token(th) \notin persisted
                /\ (dpc[th] \notin {"except_conn", "except_other"}
                       => pend[th] = {}))
    /\ [][persisted' # persisted =>
            \E th \in DbThreads :
                /\ dpc[th] = "commit"
                /\ uowErr[th] = "none"
                /\ persisted' = persisted \cup pend[th]]_vars

\* a call whose unit of work threw after at least one successful write has
\* ended; an earlier call's committed writes are all that is persisted
C8_Witness ==
    \E th \in DbThreads :
        /\ dpc[th] = "done"
        /\ uowErr[th] # "none"
        /\ wrote[th] >= 1
        /\ Token(th) \notin persisted
        /\ persisted # {}

C10_LogicErrorNotRetried ==
    /\ [](\A th \in DbThreads :
            (UowLogicError(th) /\ TcExited(th)) =>
                /\ runs[th] = 1
                /\ ~rebuilt[th]
                /\ tcOutcome[th] # "ok")
    /\ [][\A th \in DbThreads :
            (dpc[th] = "except_other" /\ dpc'[th] # dpc[th]) =>
                /\ dpc'[th] = "tc_finally"
                /\ pend'[th] = {}
                /\ persisted' = persisted
                /\ poolClosed' = poolClosed
                /\ (conn[th] = "ok" => exc'[th] = exc[th])]_vars

\* a call whose unit of work raised a constraint violation after a write
\* has ended: one execution, the same error raised to the caller
C10_Witness ==
    \E th \in DbThreads :
        /\ dpc[th] = "done"
        /\ UowLogicError(th)
        /\ wrote[th] >= 1
        /\ runs[th] = 1
        /\ outcome[th] = "IntegrityError"

\* the pool is open and all maxconn leases are outstanding
Exhausted ==
    /\ ~poolClosed
    /\ idleConn = "none"
    /\ UsedCount = maxconn

\* a get_db_connection() of thread th raises in this step
GetconnFails(th) ==
    \/ dpc[th] = "idle" /\ dpc'[th] = "done"
    \/ dpc[th] = "tc_get" /\ dpc'[th] = "w_except"

(***************************************************************************)
(* C11: at most maxconn (5) leases are outstanding at any time, and every  *)
(* lease a transactional call acquired is returned to the pool on every    *)
(* path, so no entry of the pool's used table is left without a holder.    *)
(***************************************************************************)
C11_LeasesReturned ==
    /\ UsedCount <= maxconn
    /\ leaked = 0

(***************************************************************************)
(* C12: a caller that requests a lease while all maxconn leases are        *)
(* outstanding does not fail fast: no get_db_connection() made on an open, *)
(* exhausted pool ends with an exception.                                  *)
(***************************************************************************)
C12_BlocksWhenExhausted ==
    [][\A th \in DbThreads : Exhausted => ~GetconnFails(th)]_vars

(***************************************************************************)
(* Circuit breaker: what the properties speak about                        *)
(***************************************************************************)
\* the failure count has reached the trip threshold
Tripped == failures >= threshold

\* seconds since the last recorded failure
Elapsed == clock - last_failure

(***************************************************************************)
(* C13: allow_request returns False only while less than the cooldown has  *)
(* elapsed since the last failure and the failure count has reached the    *)
(* threshold; in every other state it returns True.                        *)
(***************************************************************************)
C13_DeniesOnlyWhenTripped ==
    allowRet # "none" =>
        (allowRet = "False" <=> (Elapsed < timeout /\ Tripped))

Handled == req # NoReq

\* its signature matches the body and every required field is present
ValidReq ==
    /\ req.signature = "valid"
    /\ RequiredFields \subseteq req.fields

(***************************************************************************)
(* C15: on either endpoint, a request the breaker allows is answered 403   *)
(* when its signature does not match or a required field is missing, and   *)
(* with success only when the signature is valid and all fields are there. *)
(***************************************************************************)
C15_RejectsInvalid ==
    (Handled /\ allowRet = "True") =>
        resp = IF ValidReq THEN 200 ELSE 403

(***************************************************************************)
(* C16: a request with a valid signature and all required fields is        *)
(* answered 503 only if the breaker has recorded at least threshold        *)
(* failures and is still within the cooldown of the last one.              *)
(***************************************************************************)
C16_ValidDeniedOnlyWhenTripped ==
    (Handled /\ ValidReq /\ resp = 503) =>
        (Tripped /\ Elapsed < timeout)

(***************************************************************************)
(* C17: every webhook request handled by either endpoint, accepted or      *)
(* rejected, writes exactly one audit-log entry before it is answered.     *)
(***************************************************************************)
C17_OneAuditEntry ==
    Handled => audited = 1

(***************************************************************************)
(* C18: when a probe cycle finds a failing check, run_checks executes the  *)
(* recovery actions, re-runs the probe cycle exactly once, reports to the  *)
(* operator and returns, whatever the second cycle finds: never more than  *)
(* one recovery round per call.                                            *)
(***************************************************************************)
C18_OneRecoveryRound ==
    /\ rounds <= 1
    /\ hpc = "done" =>
          /\ hret = "returned"
          /\ \/ probes = 1
             \/ (rounds = 1 /\ probes = 2 /\ reported = 1)

(***************************************************************************)
(* C19: report_error increments the error counter and triggers the         *)
(* service restart exactly when the counter exceeds max_errors (20).       *)
(***************************************************************************)
C19_RestartAboveThreshold ==
    /\ [](repRet # "none" => (restarted <=> error_count > max_errors))
    /\ [][repRet' # repRet => error_count' = error_count + 1]_vars

(***************************************************************************)
(* C20: the error counter is reset once the reset window (3600 s) has      *)
(* elapsed, so an error is never counted on top of errors reported more    *)
(* than one window earlier.                                                *)
(***************************************************************************)
C20_OldErrorsNotCounted ==
    [][error_count' = error_count + 1 =>
          (error_count = 0 \/ clock - firstErrAt <= reset_interval)]_vars

(***************************************************************************)
(* C21: send_admin_alert never raises to its caller: run_checks,           *)
(* recover_system and report_error go on normally after the call, so       *)
(* neither run_checks nor report_error ever ends with an exception.        *)
(***************************************************************************)
C21_AlertNeverRaises ==
    /\ hret \in {"none", "returned"}
    /\ repRet \in {"none", "returned"}

\* the only trace of a confirmation that the code leaves outside the index:
\* the PAYMENT_CONFIRMED audit entry of _confirm_payment
ConfirmedRecorded(t) == pollCredits[t] > 0

(* C28: the insertion into the DoubleSpendIndex and the record of the      *)
(* confirmation are one atomic unit: in every state an identifier is in    *)
(* the index exactly when its confirmation has been recorded.              *)
C28_IndexAndRecordTogether ==
    \A t \in Txs : (t \in doubleSpend) <=> ConfirmedRecorded(t)

(* C29: verify_payment returns True only if the ledger reports at least    *)
(* one confirmation for the transaction.                                   *)
C29_VerifyNeedsConfirmation ==
    [][\A th \in VerifyThreads :
          VerifyReturnsTrue(th) =>
              ledger[vargs[th].tx_id].confirmations >= 1]_vars

(* C30: rejection is permanent: once verify_payment has rejected an       *)
(* identifier for an amount or address mismatch, no later verify_payment   *)
(* call returns True for it and no later poll cycle confirms it.           *)
C30_RejectionPermanent ==
    [][/\ \A th \in VerifyThreads :
             VerifyReturnsTrue(th) => vargs[th].tx_id \notin rejected
       /\ \A p \in pollQueue :
             PollConfirms(p) => p.tx_id \notin rejected]_vars

\* a check of the running cycle ends while the ledger does not answer
CheckRaises == ppc = "cycle" /\ ~ledgerUp /\ pollQueue' # pollQueue

(* C31: a ledger-query exception raised while one pending payment is       *)
(* checked does not stop the poll loop: the step confirms nothing, only    *)
(* the record that was checked leaves the cycle's queue, the others remain *)
(* to be checked, and the cycle goes on without counting as failed.        *)
C31_CheckErrorContained ==
    [][CheckRaises =>
          /\ \E p \in pollQueue : pollQueue' = pollQueue \ {p}
          /\ ppc' = "cycle"
          /\ pollCredits' = pollCredits
          /\ failedCycles' = failedCycles]_vars

\* in one cycle the check of tx1 raised and tx2 was confirmed after it
C31_Witness ==
    /\ ppc = "cycle"
    /\ cycleLog = <<[tx_id |-> "tx1", result |-> "error"],
                    [tx_id |-> "tx2", result |-> "confirmed"]>>
    /\ pollCredits["tx2"] = 1

(* C32: when whole poll cycles keep failing, the loop is retried a bounded *)
(* number of times and is then reported to the Supervisor: once            *)
(* stop_after_attempt cycles have failed in a row, report_error has been   *)
(* called.                                                                 *)
C32_StalledLoopReported ==
    failedCycles >= stop_after_attempt => error_count > 0

(* C33: generate_payment_address for a user who already has an unexpired   *)
(* wallet does not overwrite that wallet: while a wallet is unexpired its  *)
(* expected amount and its address stay what they are.                     *)
C33_UnexpiredWalletKept ==
    [][\A u \in Users :
          (HasWallet(u) /\ ~Expired(u)) =>
              /\ wallets'[u].amount = wallets[u].amount
              /\ wallets'[u].address = wallets[u].address]_vars

(* C34: the pool stays usable across a transient outage: after             *)
(* recover_db_connection has closed the pooled connections, with the       *)
(* database reachable again and leases to spare, no get_db_connection of a *)
(* transactional call raises.                                              *)
C34_PoolUsableAfterRecovery ==
    [][\A th \in DbThreads :
          (poolClosed /\ dbUp /\ UsedCount < maxconn) => ~GetconnFails(th)]_vars

\* thread th runs recover_db_connection in this step
Recovers(th) == ~rebuilt[th] /\ rebuilt'[th]

(* C35: a pool rebuild started by one thread's recovery does not           *)
(* invalidate the leases of other threads: the step that runs              *)
(* recover_db_connection leaves every other thread's connections as they   *)
(* are.                                                                    *)
C35_RebuildKeepsOtherLeases ==
    [][\A th \in DbThreads :
          Recovers(th) =>
              \A o \in DbThreads \ {th} :
                  conn'[o] = conn[o] /\ conn0'[o] = conn0[o]]_vars

\* a step in which no database operation moves: a health probe
ProbeStep ==
    UNCHANGED <<dpc, conn0, conn, exc, stmts, pend, persisted, calls, runs,
                rebuilt, uowErr, wrote, tcOutcome, outcome>>

(* C36: health probes do not consume pool capacity: a probe leaves the     *)
(* number of outstanding leases and the idle connection of the pool as     *)
(* they were.                                                              *)
C36_ProbesReturnLeases ==
    [][ProbeStep => (UsedCount' = UsedCount /\ idleConn' = idleConn)]_vars

(* C37: one database operation (execute_with_rollback around               *)
(* transaction_context) holds at most one lease at any time.               *)
C37_OneLeasePerOperation ==
    \A th \in DbThreads : ~(conn0[th] # "none" /\ conn[th] # "none")

(* C38: verify_payment never returns True for a user who has no wallet     *)
(* recorded, whatever entry the ledger returns.                            *)
C38_NoWalletNoConfirmation ==
    [][\A th \in VerifyThreads :
          VerifyReturnsTrue(th) => HasWallet(vargs[th].user_id)]_vars

====
